---- MODULE Spec2Model ----
(***************************************************************************)
(* FormFillingAgent (src/form_filling_agent.py): one run of the pipeline   *)
(* navigate_to_form -> analyze_form -> fill_form -> submit_form, against a *)
(* live document (the browser session) and a reasoning oracle (the LLM).   *)
(*                                                                         *)
(* Identifiers (id, name, placeholder, mapping keys, tag, type) are TLA+   *)
(* strings, compared for equality only.  Texts that the code searches or   *)
(* converts (oracle verdicts, element text/class/value, mapping values)    *)
(* are sequences of one-character strings.                                 *)
(***************************************************************************)
EXTENDS Integers, Sequences, FiniteSets, TLC

\* Longest mapping object the oracle answers with (number of keys).
MaxKeys == 2
\* How many calls on the document may raise in one run.
MaxFaults == 1

(***************************************************************************)
(* Python values of a parsed JSON mapping: None, str, bool, int.           *)
(***************************************************************************)
None == [t |-> "none", s |-> <<>>, n |-> 0]
PStr(cs) == [t |-> "str", s |-> cs, n |-> 0]
PBool(b) == [t |-> "bool", s |-> <<>>, n |-> IF b THEN 1 ELSE 0]
PInt(k) == [t |-> "int", s |-> <<>>, n |-> k]

IsNumber(v) == v.t \in {"bool", "int"}

\* Python ==: bool is a subclass of int (True == 1), str compares by content.
PyEq(a, b) ==
    \/ IsNumber(a) /\ IsNumber(b) /\ a.n = b.n
    \/ a.t = "str" /\ b.t = "str" /\ a.s = b.s
    \/ a.t = "none" /\ b.t = "none"

\* Python `x in [..]`: some member compares equal.
PyIn(v, list) == \E j \in DOMAIN list : PyEq(v, list[j])

Digit(k) == CASE k = 0 -> "0" [] k = 1 -> "1" [] k = 2 -> "2" [] k = 3 -> "3"
              [] k = 4 -> "4" [] k = 5 -> "5" [] k = 6 -> "6" [] k = 7 -> "7"
              [] k = 8 -> "8" [] OTHER -> "9"

\* str(value), for the values of the model (ints are single digits).
PyStr(v) ==
    CASE v.t = "str" -> v.s
      [] v.t = "none" -> <<"N", "o", "n", "e">>
      [] v.t = "bool" -> IF v.n = 1 THEN <<"T", "r", "u", "e">>
                                    ELSE <<"F", "a", "l", "s", "e">>
      [] OTHER -> <<Digit(v.n)>>

LowerChar(c) ==
    CASE c = "A" -> "a" [] c = "E" -> "e" [] c = "F" -> "f" [] c = "J" -> "j"
      [] c = "M" -> "m" [] c = "N" -> "n" [] c = "O" -> "o" [] c = "S" -> "s"
      [] c = "T" -> "t" [] c = "Y" -> "y" [] OTHER -> c

\* str.lower()
Lower(cs) == [j \in DOMAIN cs |-> LowerChar(cs[j])]

\* Python `pat in text` on strings: pat occurs as a contiguous substring.
IsSubstring(pat, text) ==
    \E j \in 1..(Len(text) - Len(pat) + 1) : SubSeq(text, j, j + Len(pat) - 1) = pat

(***************************************************************************)
(* The live document: elements in document order.                          *)
(***************************************************************************)
Elem(tag, type, id, name) ==
    [tag |-> tag, type |-> type, id |-> id, name |-> name, placeholder |-> "",
     for |-> "", text |-> <<>>, class |-> <<>>, ptext |-> <<>>,
     options |-> <<>>, checked |-> FALSE, value |-> <<>>]

Jane == <<"J", "a", "n", "e">>
Old == <<"o", "l", "d">>
SubmitText == <<"S", "u", "b", "m", "i", "t">>
FirstNameLabel == <<"F", "i", "r", "s", "t">>

\* A form with one control of every kind fill_form dispatches on, a key that
\* is the id of one input and the name of another, and two submit controls
\* that different selectors resolve.
RichDocument(agreeChecked) ==
    << [Elem("label", "", "", "") EXCEPT !.for = "first_name", !.text = FirstNameLabel],
       [Elem("input", "text", "first_name", "fn") EXCEPT !.value = Old,
                                                         !.ptext = FirstNameLabel],
       Elem("input", "text", "a", "b"),
       Elem("input", "text", "c", "a"),
       [Elem("input", "checkbox", "agree", "agree") EXCEPT !.checked = agreeChecked],
       [Elem("input", "text", "", "") EXCEPT !.placeholder = "ph"],
       Elem("input", "radio", "r1", "grp"),
       [Elem("input", "radio", "r2", "grp") EXCEPT !.checked = TRUE],
       [Elem("select", "select-one", "state", "state") EXCEPT
            !.options = << [text |-> <<"N", "Y">>, value |-> <<"n", "y">>],
                           [text |-> <<"M", "a", "s", "s">>, value |-> <<"M", "A">>],
                           [text |-> <<"M", "A">>, value |-> <<"m", "a">>] >>,
            !.value = <<"n", "y">>],
       [Elem("button", "", "", "") EXCEPT !.class = <<"s", "u", "b", "m", "i", "t">>],
       [Elem("input", "submit", "", "") EXCEPT !.value = SubmitText] >>

\* One text input with id first_name, plus a submit control.
SmallDocument ==
    << Elem("input", "text", "first_name", ""),
       [Elem("button", "submit", "", "") EXCEPT !.text = SubmitText] >>

\* A form without any submit control.
NoSubmitDocument ==
    << Elem("input", "text", "first_name", ""),
       Elem("input", "checkbox", "agree", "") >>

Documents ==
    {RichDocument(TRUE), RichDocument(FALSE), SmallDocument, NoSubmitDocument}

(***************************************************************************)
(* The mapping oracle's reply, as tokens: a fence with a language tag, a   *)
(* bare fence, a newline, one JSON value, or text that is not JSON.        *)
(***************************************************************************)
JNone == [kind |-> "none", items |-> <<>>]
JObject(items) == [kind |-> "object", items |-> items]
JArray == [kind |-> "array", items |-> <<>>]

FenceJson == [t |-> "fence_json", j |-> JNone]
Fence == [t |-> "fence", j |-> JNone]
NL == [t |-> "nl", j |-> JNone]
Junk == [t |-> "junk", j |-> JNone]
Json(j) == [t |-> "json", j |-> j]

RECURSIVE LStrip(_)
LStrip(ts) == IF ts # <<>> /\ Head(ts).t = "nl" THEN LStrip(Tail(ts)) ELSE ts

RECURSIVE RStrip(_)
RStrip(ts) ==
    IF ts # <<>> /\ ts[Len(ts)].t = "nl" THEN RStrip(SubSeq(ts, 1, Len(ts) - 1)) ELSE ts

\* str.strip()
Strip(ts) == RStrip(LStrip(ts))

\* str.find("\n"), as the 1-based position of the first newline (0: none).
FindNewline(ts) ==
    IF \E j \in DOMAIN ts : ts[j].t = "nl"
    THEN CHOOSE j \in DOMAIN ts : ts[j].t = "nl" /\ \A h \in 1..(j - 1) : ts[h].t # "nl"
    ELSE 0

\* str.rfind("```"), as the 1-based position of the last fence (0: none).
RFindFence(ts) ==
    LET fences == {j \in DOMAIN ts : ts[j].t \in {"fence", "fence_json"}}
    IN IF fences = {} THEN 0 ELSE CHOOSE j \in fences : \A h \in fences : h <= j

\* Lines 151-159: strip, then cut a ```json block down to its inside.
CleanContent(raw) ==
    LET cleaned == Strip(raw)
        json_start == FindNewline(cleaned)      \* Python: find("\n") + 1
        json_end == RFindFence(cleaned) - 1     \* Python: rfind("```")
    IN IF cleaned # <<>> /\ cleaned[1].t = "fence_json" /\ json_end > json_start
       THEN Strip(SubSeq(cleaned, json_start + 1, json_end))
       ELSE cleaned

\* json.loads: one JSON value, surrounding whitespace allowed; else JSONDecodeError.
JsonLoads(ts) ==
    LET s == Strip(ts)
    IN IF Len(s) = 1 /\ s[1].t = "json" THEN [ok |-> TRUE, j |-> s[1].j]
                                         ELSE [ok |-> FALSE, j |-> JNone]

\* Line 175 calls self.create_fallback_mapping, which class FormFillingAgent
\* does not define: the attribute lookup raises AttributeError.
CreateFallbackMapping(details) == [raises |-> TRUE, j |-> JNone]

\* The handler of a failed request reaching for the fallback instead: the
\* AttributeError then leaves analyze_form.
OnRequestErrorCallsFallback == [mapping |-> JNone, fallback |-> 1, raises |-> TRUE]

\* Lines 177-179: the handler of a failed request logs and falls off the end
\* of analyze_form (returns None).
OnRequestError == [mapping |-> JNone, fallback |-> 0, raises |-> FALSE]

\* Lines 133-179 on the oracle's outcome: what analyze_form returns, how often
\* it reached for the fallback, whether an exception leaves it.
AnalyzeResult(outcome, details) ==
    IF outcome.raises
    THEN [llm |-> "raise"] @@ OnRequestError
    ELSE IF ~outcome.hasText
    THEN \* raw_content is None: .strip() raises AttributeError, caught at 177
         [llm |-> "notext"] @@ OnRequestError
    ELSE LET parsed == JsonLoads(CleanContent(outcome.text))
             fb == CreateFallbackMapping(details)
         IN IF parsed.ok
            THEN [llm |-> "parsed", mapping |-> parsed.j, fallback |-> 0, raises |-> FALSE]
            ELSE IF fb.raises
            THEN \* AttributeError inside the JSONDecodeError handler, caught at 177
                 [llm |-> "unparsable", mapping |-> OnRequestError.mapping,
                  fallback |-> 1, raises |-> OnRequestError.raises]
            ELSE [llm |-> "unparsable", mapping |-> fb.j, fallback |-> 1, raises |-> FALSE]

(***************************************************************************)
(* What the oracle may answer.                                             *)
(***************************************************************************)
Yes == <<"y", "e", "s">>
No == <<"n", "o">>
Pair(k, v) == [k |-> k, v |-> v]

\* identifier -> value pairs the oracle's mapping is made of
OraclePairs ==
    { Pair("first_name", PStr(Jane)), Pair("first_name", None),
      Pair("a", PStr(Jane)), Pair("a", PStr(<<>>)),
      Pair("ssn", PStr(Jane)),
      Pair("agree", PBool(TRUE)), Pair("agree", PInt(1)),
      Pair("agree", PStr(Yes)), Pair("agree", PStr(No)),
      Pair("ph", PStr(Jane)),
      Pair("r1", PStr(<<"Y">>)),
      Pair("state", PStr(<<"M", "A">>)), Pair("state", PStr(Jane)) }

\* JSON objects of at most MaxKeys keys (a dict: keys distinct, order kept)
Mappings ==
    { m \in UNION {[1..n -> OraclePairs] : n \in 0..MaxKeys} :
        \A x, y \in DOMAIN m : x # y => m[x].k # m[y].k }

TextOutcome(ts) == [raises |-> FALSE, hasText |-> TRUE, text |-> ts]

MapOutcomes ==
    { [raises |-> TRUE, hasText |-> FALSE, text |-> <<>>],
      [raises |-> FALSE, hasText |-> FALSE, text |-> <<>>],
      TextOutcome(<<Junk>>), TextOutcome(<<>>), TextOutcome(<<Json(JArray)>>) }
    \cup { TextOutcome(<<Json(JObject(m))>>) : m \in Mappings }
    \cup { TextOutcome(<<FenceJson, NL, Json(JObject(m)), NL, Fence>>) : m \in Mappings }
    \cup { TextOutcome(<<Fence, NL, Json(JObject(m)), NL, Fence, NL>>) : m \in Mappings }

(***************************************************************************)
(* State of one run.                                                       *)
(***************************************************************************)
VARIABLES
    pc,                \* where run() is
    doc,               \* the live document
    element_details,   \* analyze_form's descriptor list (a local of analyze_form)
    introspection,     \* analyze_form: the controls that raised while being read
    mapping_strategy,  \* what analyze_form returned
    llm,               \* how the mapping request ended
    fallbackCalls,     \* times analyze_form reached for create_fallback_mapping
    idx,               \* fill_form: position in mapping_strategy.items()
    attempted,         \* fill_form: the keys whose iteration has run, in order
    ops,               \* every call issued on the document by fill_form and submit_form
    sel,               \* submit_form: position in submit_selectors
    form_data,         \* submit_form: the snapshot sent to the oracle
    gate,              \* how the verdict request ended
    submitted,         \* what submit_form returned
    raised,            \* an exception is leaving run()
    quits,             \* calls of driver.quit()
    requests,          \* the oracle requests issued, in order
    faults             \* document calls that have raised so far

vars == <<pc, doc, element_details, introspection, mapping_strategy, llm, fallbackCalls, idx,
          attempted, ops, sel, form_data, gate, submitted, raised, quits,
          requests, faults>>

analyzeVars == <<element_details, introspection, mapping_strategy, llm, fallbackCalls>>
fillVars == <<idx, attempted>>
gateVars == <<sel, form_data, gate, submitted>>

NoGate == [kind |-> "unset", text |-> <<>>]

\* scan: the controls whose attribute or label read raised (caught at 105);
\* parent: those whose parent lookup raised (caught at 94)
NoneRaised == [scan |-> {}, parent |-> {}]

\* Lines 23-42: the agent is constructed on a page not yet loaded.
Init ==
    /\ pc = "navigate"
    /\ doc \in Documents
    /\ element_details = <<>>
    /\ introspection = NoneRaised
    /\ mapping_strategy = JNone
    /\ llm = "unset"
    /\ fallbackCalls = 0
    /\ idx = 1
    /\ attempted = <<>>
    /\ ops = <<>>
    /\ sel = 1
    /\ form_data = <<>>
    /\ gate = NoGate
    /\ submitted = "unset"
    /\ raised = FALSE
    /\ quits = 0
    /\ requests = <<>>
    /\ faults = 0

\* run() with submit_form called right after analyze_form, fill_form left out.
PhaseAfterGateBeforeFill(phase) ==
    CASE phase = "navigate" -> "scan"
      [] phase = "query" -> "submit"
      [] OTHER -> "submit"

\* Lines 321-324: run() calls navigate_to_form, analyze_form, fill_form and
\* submit_form in this order, each when the one before has returned.
PhaseAfter(phase) ==
    CASE phase = "navigate" -> "scan"
      [] phase = "query" -> "fill"
      [] OTHER -> "submit"

\* A call on the document raises: the run's budget of such failures allows one more.
MayFail == faults < MaxFaults

\* Lines 44-48 (called at 321): driver.get either loads the page or raises.
NavigateToForm ==
    /\ pc = "navigate"
    /\ \E fails \in BOOLEAN :
        /\ fails => MayFail
        /\ faults' = IF fails THEN faults + 1 ELSE faults
        /\ raised' = fails
        /\ pc' = IF fails THEN "finally" ELSE PhaseAfter("navigate")
    /\ UNCHANGED <<doc, analyzeVars, fillVars, ops, gateVars, quits, requests>>

IsFormControl(e) == e.tag \in {"input", "select", "textarea"}

\* Lines 76-82: the text of the first label whose for is the element's id.
LabelText(d, e) ==
    LET labels == {j \in DOMAIN d : d[j].tag = "label" /\ d[j].for = e.id}
    IN IF e.id # "" /\ labels # {}
       THEN d[CHOOSE j \in labels : \A h \in labels : j <= h].text
       ELSE <<>>

\* Lines 97-104
Descriptor(d, e, parentFails) ==
    [type |-> e.type, id |-> e.id, name |-> e.name, label |-> LabelText(d, e),
     placeholder |-> e.placeholder,
     parent_text |-> IF parentFails THEN <<>> ELSE e.ptext]

\* The scan with the handler around the loop: the first control that raises
\* ends it.
RECURSIVE ScanFromUntilFailure(_, _, _, _)
ScanFromUntilFailure(d, j, bad, pbad) ==
    IF j > Len(d) \/ j \in bad THEN <<>>
    ELSE IF IsFormControl(d[j])
    THEN <<Descriptor(d, d[j], j \in pbad)>> \o ScanFromUntilFailure(d, j + 1, bad, pbad)
    ELSE ScanFromUntilFailure(d, j + 1, bad, pbad)

\* Lines 62-107: the controls in document order; one that raises is skipped,
\* one whose parent cannot be read keeps an empty parent_text.
RECURSIVE ScanFrom(_, _, _, _)
ScanFrom(d, j, bad, pbad) ==
    IF j > Len(d) THEN <<>>
    ELSE IF IsFormControl(d[j]) /\ j \notin bad
    THEN <<Descriptor(d, d[j], j \in pbad)>> \o ScanFrom(d, j + 1, bad, pbad)
    ELSE ScanFrom(d, j + 1, bad, pbad)

FormControls(d) == {j \in DOMAIN d : IsFormControl(d[j])}

\* Lines 50-107 (called at 322): page_source and find_elements are outside any
\* try; each control is introspected inside one.
AnalyzeFormScan ==
    /\ pc = "scan"
    /\ \/ /\ MayFail
          /\ faults' = faults + 1
          /\ raised' = TRUE
          /\ pc' = "finally"
          /\ UNCHANGED <<element_details, introspection>>
       \/ \E bad \in SUBSET FormControls(doc) : \E pbad \in SUBSET (FormControls(doc) \ bad) :
            /\ faults + Cardinality(bad) + Cardinality(pbad) <= MaxFaults
            /\ faults' = faults + Cardinality(bad) + Cardinality(pbad)
            /\ element_details' = ScanFrom(doc, 1, bad, pbad)
            /\ introspection' = [scan |-> bad, parent |-> pbad]
            /\ pc' = "query"
            /\ UNCHANGED raised
    /\ UNCHANGED <<doc, mapping_strategy, llm, fallbackCalls, fillVars, ops, gateVars,
                   quits, requests>>

\* A failed request sent a second time.
MapRequestsRetried(outcome) == IF outcome.raises THEN <<"map", "map">> ELSE <<"map">>

\* Lines 134-141: the requests analyze_form sends, whatever the outcome.
MapRequests(outcome) == <<"map">>

\* Lines 109-179: one request to the oracle, and what becomes of its outcome.
AnalyzeFormQuery ==
    /\ pc = "query"
    /\ \E outcome \in MapOutcomes :
        LET r == AnalyzeResult(outcome, element_details)
        IN /\ mapping_strategy' = r.mapping
           /\ llm' = r.llm
           /\ fallbackCalls' = fallbackCalls + r.fallback
           /\ raised' = r.raises
           /\ pc' = IF r.raises THEN "finally" ELSE PhaseAfter("query")
           /\ requests' = requests \o MapRequests(outcome)
    /\ element_details' = <<>>
    /\ introspection' = NoneRaised
    /\ UNCHANGED <<doc, fillVars, ops, gateVars, quits, faults>>

(***************************************************************************)
(* fill_form (lines 181-235).                                              *)
(***************************************************************************)
\* One call on the document: res is "ok", "nosuch" (NoSuchElementException) or
\* "error" (any other exception); pre is the element's checked state at the call.
Op(op, el, key, by, res, pre) ==
    [op |-> op, el |-> el, key |-> key, by |-> by, res |-> res, pre |-> pre]

\* Only None skipped, the empty string filled in.
IsEmptyValueNoneOnly(v) == v.t = "none"

\* Line 188
IsEmptyValue(v) == v.t = "none" \/ PyEq(v, PStr(<<>>))

\* find_element: the first element in document order that matches (0: none).
FirstIndex(S) == IF S = {} THEN 0 ELSE CHOOSE j \in S : \A h \in S : j <= h

\* By.ID, By.NAME, and the XPath //input[@placeholder=...] (lines 194, 197, 200)
FindElementBy(d, how, k) ==
    FirstIndex({j \in DOMAIN d :
        CASE how = "id" -> d[j].id = k
          [] how = "name" -> d[j].name = k
          [] OTHER -> d[j].tag = "input" /\ d[j].placeholder = k})

\* The name lookup tried before the id lookup.
ResolutionOrderNameFirst == <<"name", "id", "placeholder">>

\* Lines 193-203: the nesting order of the three lookups.
ResolutionOrder == <<"id", "name", "placeholder">>

\* Lines 192-203: try each lookup in turn; NoSuchElementException moves on to
\* the next, and after the last the key is skipped with a warning.
RECURSIVE LookupFrom(_, _, _)
LookupFrom(d, k, n) ==
    IF n > Len(ResolutionOrder) THEN [el |-> 0, ops |-> <<>>]
    ELSE LET how == ResolutionOrder[n]
             e == FindElementBy(d, how, k)
         IN IF e # 0
            THEN [el |-> e, ops |-> <<Op("find_" \o how, e, k, "fill", "ok", FALSE)>>]
            ELSE LET rest == LookupFrom(d, k, n + 1)
                 IN [el |-> rest.el,
                     ops |-> <<Op("find_" \o how, 0, k, "fill", "nosuch", FALSE)>> \o rest.ops]

\* Line 209
TruthyCheckbox == <<PBool(TRUE), PStr(Yes), PStr(<<"Y">>), PStr(<<"t", "r", "u", "e">>)>>
\* Line 213
TruthyRadio == {<<"t", "r", "u", "e">>, Yes, <<"y">>, <<"1">>}

\* The click without the is_selected test.
CheckboxClicksAlways(v, selected) == PyIn(v, TruthyCheckbox)

\* A truthy value toggling a box that is already selected.
CheckboxClicksIfSelected(v, selected) == PyIn(v, TruthyCheckbox) /\ selected

\* Lines 209-210: whether the checkbox gets clicked.
CheckboxClicks(v, selected) == PyIn(v, TruthyCheckbox) /\ ~selected

\* Line 213
RadioClicks(v) == Lower(PyStr(v)) \in TruthyRadio

\* The browser's click on a checkbox toggles it; on a radio it checks it and
\* unchecks the other radios of its group.
Click(d, e) ==
    IF d[e].type = "checkbox" THEN [d EXCEPT ![e].checked = ~d[e].checked]
    ELSE IF d[e].type = "radio"
    THEN [j \in DOMAIN d |->
            IF j = e THEN [d[j] EXCEPT !.checked = TRUE]
            ELSE IF d[j].type = "radio" /\ d[j].name = d[e].name /\ d[e].name # ""
            THEN [d[j] EXCEPT !.checked = FALSE]
            ELSE d[j]]
    ELSE d

\* The two lookups the wrong way round: by value first, then by visible text.
OptionByValueFirst(e, field, cs) ==
    FirstIndex({j \in DOMAIN e.options :
        IF field = "text" THEN e.options[j].value = cs ELSE e.options[j].text = cs})

OptionBy(e, field, cs) ==
    FirstIndex({j \in DOMAIN e.options :
        IF field = "text" THEN e.options[j].text = cs ELSE e.options[j].value = cs})

\* Lines 206-227: the dispatch on the resolved element's type.
Dispatch(d, e, k, v, fault) ==
    LET el == d[e]
        o(name, res) == Op(name, e, k, "fill", res, el.checked)
    IN IF el.type = "checkbox"
       THEN IF ~PyIn(v, TruthyCheckbox) THEN [doc |-> d, ops |-> <<>>]
            ELSE IF ~CheckboxClicks(v, el.checked)
            THEN [doc |-> d, ops |-> <<o("is_selected", "ok")>>]
            ELSE IF fault = "click"
            THEN [doc |-> d, ops |-> <<o("is_selected", "ok"), o("click", "error")>>]
            ELSE [doc |-> Click(d, e), ops |-> <<o("is_selected", "ok"), o("click", "ok")>>]
       ELSE IF el.type = "radio"
       THEN IF ~RadioClicks(v) THEN [doc |-> d, ops |-> <<>>]
            ELSE IF fault = "click" THEN [doc |-> d, ops |-> <<o("click", "error")>>]
            ELSE [doc |-> Click(d, e), ops |-> <<o("click", "ok")>>]
       ELSE IF el.tag = "select"
       THEN LET byText == IF fault = "select" THEN 0 ELSE OptionBy(el, "text", PyStr(v))
                byValue == OptionBy(el, "value", PyStr(v))
                first == o("select_by_visible_text",
                           IF fault = "select" THEN "error"
                           ELSE IF byText = 0 THEN "nosuch" ELSE "ok")
            IN IF byText # 0
               THEN [doc |-> [d EXCEPT ![e].value = el.options[byText].value],
                     ops |-> <<first>>]
               ELSE IF byValue # 0
               THEN [doc |-> [d EXCEPT ![e].value = el.options[byValue].value],
                     ops |-> <<first, o("select_by_value", "ok")>>]
               ELSE [doc |-> d, ops |-> <<first, o("select_by_value", "nosuch")>>]
       ELSE IF fault = "clear" THEN [doc |-> d, ops |-> <<o("clear", "error")>>]
       ELSE IF fault = "send_keys"
       THEN [doc |-> [d EXCEPT ![e].value = <<>>],
             ops |-> <<o("clear", "ok"), o("send_keys", "error")>>]
       ELSE [doc |-> [d EXCEPT ![e].value = PyStr(v)],
             ops |-> <<o("clear", "ok"), o("send_keys", "ok")>>]

\* Lines 186-233: one iteration of the loop, for key k with value v; fault
\* names the call that raises in it, if any.
FillField(d, k, v, fault) ==
    IF IsEmptyValue(v) THEN [doc |-> d, ops |-> <<>>]
    ELSE IF fault = "lookup"
    THEN [doc |-> d, ops |-> <<Op("find_id", 0, k, "fill", "error", FALSE)>>]
    ELSE LET found == LookupFrom(d, k, 1)
         IN IF found.el = 0 THEN [doc |-> d, ops |-> found.ops]
            ELSE IF fault = "type"
            THEN [doc |-> d,
                  ops |-> found.ops \o
                          <<Op("get_type", found.el, k, "fill", "error", d[found.el].checked)>>]
            ELSE LET r == Dispatch(d, found.el, k, v, fault)
                 IN [doc |-> r.doc, ops |-> found.ops \o r.ops]

FillFaults == {"none", "lookup", "type", "click", "select", "clear", "send_keys"}

HasError(os) == \E j \in DOMAIN os : os[j].res = "error"

\* An exception reaches the handler at 232, unless it came from
\* select_by_visible_text, whose bare except (219) swallows everything.
FieldRaises(os) ==
    \E j \in DOMAIN os : os[j].res = "error" /\ os[j].op # "select_by_visible_text"

\* The handler around the whole loop: the first exception ends the pass.
AfterFieldErrorStops(i, n) == n + 1

\* Lines 232-233: the handler is inside the loop body, so after a field's
\* exception the loop goes on with the next item.
AfterFieldError(i, n) == i + 1

\* Anything analyze_form returns taken for a mapping, None as the empty one.
ItemsRaisesNever(m) == FALSE

\* Line 185: .items() on anything but a dict raises AttributeError, outside
\* the per-field try.
ItemsRaises(m) == m.kind # "object"

FillFormRaise ==
    /\ pc = "fill"
    /\ ItemsRaises(mapping_strategy)
    /\ raised' = TRUE
    /\ pc' = "finally"
    /\ UNCHANGED <<doc, analyzeVars, fillVars, ops, gateVars, quits, requests, faults>>

FillFormField ==
    /\ pc = "fill"
    /\ ~ItemsRaises(mapping_strategy)
    /\ idx <= Len(mapping_strategy.items)
    /\ \E fault \in FillFaults :
        LET it == mapping_strategy.items[idx]
            r == FillField(doc, it.k, it.v, fault)
        IN /\ fault # "none" => MayFail /\ HasError(r.ops)
           /\ doc' = r.doc
           /\ ops' = ops \o r.ops
           /\ faults' = IF fault # "none" THEN faults + 1 ELSE faults
           /\ attempted' = Append(attempted, it.k)
           /\ idx' = IF FieldRaises(r.ops)
                     THEN AfterFieldError(idx, Len(mapping_strategy.items))
                     ELSE idx + 1
    /\ UNCHANGED <<pc, analyzeVars, gateVars, raised, quits, requests>>

\* Line 235
FillFormReturn ==
    /\ pc = "fill"
    /\ ~ItemsRaises(mapping_strategy)
    /\ idx > Len(mapping_strategy.items)
    /\ pc' = PhaseAfter("fill")
    /\ UNCHANGED <<doc, analyzeVars, fillVars, ops, gateVars, raised, quits, requests,
                   faults>>

(***************************************************************************)
(* submit_form (lines 237-316).                                            *)
(***************************************************************************)
SendText == <<"s", "e", "n", "d">>
SubmitClass == <<"s", "u", "b", "m", "i", "t">>

\* The class heuristic tried first.
submit_selectors_class_first ==
    << "//button[contains(@class, 'submit')]", "//button[@type='submit']",
       "//input[@type='submit']", "//button[contains(text(), 'Submit')]",
       "//button[contains(text(), 'send')]", "//input[contains(@value, 'Submit')]" >>

\* Lines 242-249
submit_selectors ==
    << "//button[@type='submit']", "//input[@type='submit']",
       "//button[contains(text(), 'Submit')]", "//button[contains(text(), 'send')]",
       "//button[contains(@class, 'submit')]", "//input[contains(@value, 'Submit')]" >>

Matches(selector, e) ==
    CASE selector = "//button[@type='submit']" -> e.tag = "button" /\ e.type = "submit"
      [] selector = "//input[@type='submit']" -> e.tag = "input" /\ e.type = "submit"
      [] selector = "//button[contains(text(), 'Submit')]" ->
            e.tag = "button" /\ IsSubstring(SubmitText, e.text)
      [] selector = "//button[contains(text(), 'send')]" ->
            e.tag = "button" /\ IsSubstring(SendText, e.text)
      [] selector = "//button[contains(@class, 'submit')]" ->
            e.tag = "button" /\ IsSubstring(SubmitClass, e.class)
      [] OTHER -> e.tag = "input" /\ IsSubstring(SubmitText, e.value)

\* Line 253
FindElementByXPath(d, selector) == FirstIndex({j \in DOMAIN d : Matches(selector, d[j])})

\* form_data[key] = value: a dict keeps a key's first position.
DictSet(dict, k, v) ==
    IF \E j \in DOMAIN dict : dict[j].k = k
    THEN [j \in DOMAIN dict |-> IF dict[j].k = k THEN Pair(k, v) ELSE dict[j]]
    ELSE Append(dict, Pair(k, v))

\* The snapshot with the value attribute read for every control, the checked
\* state of checkboxes and radios forgotten.
RECURSIVE SnapshotFromValuesOnly(_, _, _)
SnapshotFromValuesOnly(d, j, acc) ==
    IF j > Len(d) THEN acc
    ELSE LET e == d[j]
             element_id == IF e.id # "" THEN e.id ELSE e.name
         IN IF ~IsFormControl(e) \/ element_id = "" THEN SnapshotFromValuesOnly(d, j + 1, acc)
            ELSE SnapshotFromValuesOnly(d, j + 1, DictSet(acc, element_id, PStr(e.value)))

\* Lines 257-269: the current state of the controls, keyed by id or else name.
RECURSIVE SnapshotFrom(_, _, _)
SnapshotFrom(d, j, acc) ==
    IF j > Len(d) THEN acc
    ELSE LET e == d[j]
             element_id == IF e.id # "" THEN e.id ELSE e.name
         IN IF ~IsFormControl(e) \/ element_id = "" THEN SnapshotFrom(d, j + 1, acc)
            ELSE IF e.type = "checkbox"
            THEN SnapshotFrom(d, j + 1, DictSet(acc, element_id, PBool(e.checked)))
            ELSE IF e.type = "radio"
            THEN SnapshotFrom(d, j + 1,
                    IF e.checked THEN DictSet(acc, element_id, PBool(TRUE)) ELSE acc)
            ELSE SnapshotFrom(d, j + 1, DictSet(acc, element_id, PStr(e.value)))

PROCEED == <<"P", "R", "O", "C", "E", "E", "D">>
STOP == <<"S", "T", "O", "P">>

\* Anything that does not say STOP taken for approval.
ApprovedUnlessStop(decision) == ~IsSubstring(STOP, decision)

\* Line 298
Approved(decision) == IsSubstring(PROCEED, decision)

\* The verdicts the oracle may give
GateReplies ==
    { PROCEED,
      <<"S", "T", "O", "P", " ", "n", "o", " ", "z", "i", "p">>,
      <<"S", "T", "O", "P", " ", "d", "o", " ", "n", "o", "t", " ",
        "P", "R", "O", "C", "E", "E", "D">>,
      <<"p", "r", "o", "c", "e", "e", "d">>,
      <<>> }

GateOutcomes ==
    { [kind |-> "raise", text |-> <<>>], [kind |-> "notext", text |-> <<>>] }
    \cup { [kind |-> "text", text |-> r] : r \in GateReplies }

SubmitOp(op, el, res) == Op(op, el, "", "submit", res, FALSE)

\* Lines 251-313: one pass of the loop over submit_selectors.
SubmitFormSelector ==
    /\ pc = "submit"
    /\ sel <= Len(submit_selectors)
    /\ LET submit_button == FindElementByXPath(doc, submit_selectors[sel])
           found == SubmitOp("find_submit", submit_button, "ok")
           returns(value) ==
               /\ submitted' = value
               /\ pc' = IF value = "True" THEN "screenshot" ELSE "finally"
               /\ UNCHANGED sel
       IN \/ \* 253 raises something other than NoSuchElementException: 311-313
             /\ MayFail
             /\ faults' = faults + 1
             /\ ops' = Append(ops, SubmitOp("find_submit", 0, "error"))
             /\ returns("False")
             /\ UNCHANGED <<form_data, gate, requests>>
          \/ \* 309-310: NoSuchElementException, on to the next selector
             /\ submit_button = 0
             /\ ops' = Append(ops, SubmitOp("find_submit", 0, "nosuch"))
             /\ sel' = sel + 1
             /\ UNCHANGED <<form_data, gate, submitted, pc, requests, faults>>
          \/ \* 258-269 raise while the controls are read: 311-313
             /\ submit_button # 0
             /\ MayFail
             /\ faults' = faults + 1
             /\ ops' = ops \o <<found, SubmitOp("snapshot", 0, "error")>>
             /\ returns("False")
             /\ UNCHANGED <<form_data, gate, requests>>
          \/ \* 257-307: snapshot, one verdict request, the decision
             /\ submit_button # 0
             /\ form_data' = SnapshotFrom(doc, 1, <<>>)
             /\ requests' = Append(requests, "verdict")
             /\ \E outcome \in GateOutcomes : \E clickFails \in BOOLEAN :
                  LET approved == outcome.kind = "text" /\ Approved(outcome.text)
                      read == <<found, SubmitOp("snapshot", 0, "ok")>>
                  IN /\ gate' = outcome
                     /\ clickFails => approved /\ MayFail
                     /\ faults' = IF clickFails THEN faults + 1 ELSE faults
                     /\ ops' = IF ~approved THEN ops \o read
                               ELSE ops \o read \o
                                    <<SubmitOp("click", submit_button,
                                               IF clickFails THEN "error" ELSE "ok")>>
                     /\ returns(IF approved /\ ~clickFails THEN "True" ELSE "False")
    /\ UNCHANGED <<doc, analyzeVars, fillVars, raised, quits>>

\* Lines 315-316: no selector resolved.
SubmitFormNotFound ==
    /\ pc = "submit"
    /\ sel > Len(submit_selectors)
    /\ submitted' = "False"
    /\ pc' = "finally"
    /\ UNCHANGED <<doc, analyzeVars, fillVars, ops, sel, form_data, gate, raised, quits,
                   requests, faults>>

(***************************************************************************)
(* run (lines 318-337).                                                    *)
(***************************************************************************)
\* Lines 326-331: the screenshot after a submission; save_screenshot may raise.
Screenshot ==
    /\ pc = "screenshot"
    /\ \E fails \in BOOLEAN :
        /\ fails => MayFail
        /\ faults' = IF fails THEN faults + 1 ELSE faults
        /\ raised' = fails
    /\ pc' = "finally"
    /\ UNCHANGED <<doc, analyzeVars, fillVars, ops, gateVars, quits, requests>>

\* The browser closed at the end of the try body instead: only on a return.
FinallyOnReturnOnly ==
    /\ pc = "finally"
    /\ quits' = IF raised THEN quits ELSE quits + 1
    /\ pc' = "done"
    /\ UNCHANGED <<doc, analyzeVars, fillVars, ops, gateVars, raised, requests, faults>>

\* Lines 334-337: the finally block closes the browser on every path.
Finally ==
    /\ pc = "finally"
    /\ quits' = quits + 1
    /\ pc' = "done"
    /\ UNCHANGED <<doc, analyzeVars, fillVars, ops, gateVars, raised, requests, faults>>

Next ==
    \/ NavigateToForm
    \/ AnalyzeFormScan
    \/ AnalyzeFormQuery
    \/ FillFormRaise
    \/ FillFormField
    \/ FillFormReturn
    \/ SubmitFormSelector
    \/ SubmitFormNotFound
    \/ Screenshot
    \/ Finally

Spec == Init /\ [][Next]_vars

\* run() is straight-line code over calls that return or raise: a run that can
\* take a step takes one.
FairSpec == Spec /\ WF_vars(Next)

(***************************************************************************)
(* Properties.                                                             *)
(***************************************************************************)
SubmitClicks == {j \in DOMAIN ops : ops[j].by = "submit" /\ ops[j].op = "click"}

NotSubmitted == SubmitClicks = {} /\ submitted # "True"

\* C1 (gate safety default): as long as no verdict containing the literal
\* PROCEED has arrived (the reply lacks it, the request raised, the reply had
\* no text, or no submit selector resolved so that no request was made), no
\* click has been issued on a submit control and submit_form has not returned
\* True; and a run that got a mapping object and is past submit_form has had
\* False returned from it.
C1_GateSafetyDefault ==
    (gate.kind # "text" \/ ~IsSubstring(PROCEED, gate.text))
        => /\ NotSubmitted
           /\ (pc \in {"screenshot", "finally", "done"} /\ mapping_strategy.kind = "object")
                 => submitted = "False"

C1_Witness ==
    /\ pc = "done"
    /\ submitted = "False"
    /\ gate.kind = "text"
    /\ gate.text # <<>>
    /\ ~IsSubstring(PROCEED, gate.text)

\* C2 (a rejection never submits): whenever the verdict is in the documented
\* rejection format - it starts with STOP, whatever the reason text after it
\* says - no click has been issued on a submit control and submit_form has not
\* returned True.
C2_RejectionNeverSubmits ==
    (gate.kind = "text" /\ Len(gate.text) >= Len(STOP)
        /\ SubSeq(gate.text, 1, Len(STOP)) = STOP)
        => NotSubmitted

\* The documented order of the submit heuristics, and the control it leads to.
C3_Order ==
    << "//button[@type='submit']", "//input[@type='submit']",
       "//button[contains(text(), 'Submit')]", "//button[contains(text(), 'send')]",
       "//button[contains(@class, 'submit')]", "//input[contains(@value, 'Submit')]" >>

C3_Resolving == {n \in DOMAIN C3_Order : \E j \in DOMAIN doc : Matches(C3_Order[n], doc[j])}

C3_Target ==
    LET n == CHOOSE n \in C3_Resolving : \A m \in C3_Resolving : n <= m
    IN CHOOSE j \in DOMAIN doc :
          /\ Matches(C3_Order[n], doc[j])
          /\ \A h \in 1..(j - 1) : ~Matches(C3_Order[n], doc[h])

C3_ApprovedReturn ==
    submitted # "unset" /\ gate.kind = "text" /\ IsSubstring(PROCEED, gate.text)

\* C3 as claimed (approval clicks once and returns True): when submit_form has
\* returned after a verdict containing PROCEED, exactly one click was issued,
\* on the control found by the first selector that resolved, and it returned
\* True; and it returns True only if that click was issued.
C3_ClickedOnceReturnsTrue ==
    /\ C3_ApprovedReturn =>
          /\ Cardinality(SubmitClicks) = 1
          /\ \A j \in SubmitClicks : ops[j].el = C3_Target
          /\ submitted = "True"
    /\ submitted = "True" => SubmitClicks # {}

\* C3 as amended: when submit_form has returned after a verdict containing
\* PROCEED, exactly one click was issued, on the control found by the first
\* selector that resolved; it returned True if that click went through and
\* False if the click raised; and it returns True only if the click was issued.
C3_ClickedOnceReturnsClickOutcome ==
    /\ C3_ApprovedReturn =>
          /\ Cardinality(SubmitClicks) = 1
          /\ \A j \in SubmitClicks :
                /\ ops[j].el = C3_Target
                /\ submitted = "True" <=> ops[j].res = "ok"
    /\ submitted = "True" => SubmitClicks # {}

C3_Witness ==
    /\ pc = "done"
    /\ submitted = "True"
    /\ Cardinality(C3_Resolving) > 1
    /\ \E j \in SubmitClicks : ops[j].el = C3_Target /\ ops[j].res = "ok"

\* C4 (the mapping phase fails closed to a heuristic): whenever the oracle's
\* reply could not be parsed as JSON, analyze_form has returned a mapping
\* object and no exception is leaving run.
C4_UnparsableReplyYieldsMapping ==
    llm = "unparsable" => mapping_strategy.kind = "object" /\ ~raised

\* C5 (a failed mapping request is only logged): the step of analyze_form in
\* which the request raises does not reach for the fallback, lets no exception
\* out (run goes on to fill_form), and returns no mapping.
C5_RequestFailureLogsOnly ==
    [][pc = "query" /\ llm' = "raise"
         => /\ fallbackCalls' = fallbackCalls
            /\ ~raised'
            /\ pc' = "fill"
            /\ mapping_strategy' = JNone]_vars

C5_Witness == llm = "raise" /\ pc = "fill" /\ requests = <<"map">>

\* C6 (skip-on-empty): the iteration of fill_form for a key whose value is
\* None or the empty string issues no call on the document (no lookup, no
\* mutation) and leaves every element as it was.
C6_SkipOnEmpty ==
    [][(/\ pc = "fill"
        /\ mapping_strategy.kind = "object"
        /\ idx <= Len(mapping_strategy.items)
        /\ LET v == mapping_strategy.items[idx].v
           IN v.t = "none" \/ (v.t = "str" /\ v.s = <<>>))
         => ops' = ops /\ doc' = doc /\ idx' = idx + 1]_vars

C6_Witness ==
    /\ pc = "fill"
    /\ mapping_strategy.kind = "object"
    /\ idx = 3
    /\ mapping_strategy.items[1].v = PStr(<<>>)
    /\ mapping_strategy.items[2].v = None
    /\ doc[2].id = "first_name"

ValueOfKey(k) ==
    LET j == CHOOSE j \in DOMAIN mapping_strategy.items : mapping_strategy.items[j].k = k
    IN mapping_strategy.items[j].v

TrueStrings == {Yes, <<"Y">>, <<"t", "r", "u", "e">>}

CheckboxFillClicks ==
    {j \in DOMAIN ops :
        ops[j].by = "fill" /\ ops[j].op = "click" /\ doc[ops[j].el].type = "checkbox"}

\* C7 as claimed (checkbox no-op when already correct): every click fill_form
\* issues on a checkbox happens when the target truth-value - true for boolean
\* true and the strings yes, Y, true, false for anything else - differs from
\* the checked state the box had at that moment.
C7_ClickOnlyIfDiffers ==
    \A j \in CheckboxFillClicks :
        LET v == ValueOfKey(ops[j].key)
            target == (v.t = "bool" /\ v.n = 1) \/ (v.t = "str" /\ v.s \in TrueStrings)
        IN target # ops[j].pre

\* C7 as amended: the same, with the target truth-value true for boolean true,
\* for a number equal to 1, and for the strings yes, Y, true.
C7_ClickOnlyIfDiffersCountingOne ==
    \A j \in CheckboxFillClicks :
        LET v == ValueOfKey(ops[j].key)
            target == (v.t \in {"bool", "int"} /\ v.n = 1)
                      \/ (v.t = "str" /\ v.s \in TrueStrings)
        IN target # ops[j].pre

\* a checked box with a true target has been gone over, and not clicked
C7_Witness ==
    /\ pc = "submit"
    /\ \E j \in DOMAIN ops :
          /\ ops[j].op = "is_selected"
          /\ ops[j].pre
          /\ ValueOfKey(ops[j].key) = PBool(TRUE)
    /\ \A j \in DOMAIN ops : ops[j].op # "click"

\* the calls fill_form makes on a resolved element
OnElement(o) == o.by = "fill" /\ o.el # 0

\* C8 (resolution order): every call fill_form makes on an element for a key
\* goes to the first element whose id is the key; if no element has that id,
\* to the first whose name is the key; if none has that name either, to the
\* first input whose placeholder is the key.  A key that matches nothing gets
\* no call on any element, its iteration leaves the document as it was, and
\* no exception leaves fill_form.
C8_ResolutionOrder ==
    /\ [](\A j \in DOMAIN ops : OnElement(ops[j]) =>
            LET k == ops[j].key
                e == ops[j].el
                ids == {h \in DOMAIN doc : doc[h].id = k}
                names == {h \in DOMAIN doc : doc[h].name = k}
                phs == {h \in DOMAIN doc : doc[h].tag = "input" /\ doc[h].placeholder = k}
                first(S) == e \in S /\ \A h \in S : e <= h
            IN \/ first(ids)
               \/ ids = {} /\ first(names)
               \/ ids = {} /\ names = {} /\ first(phs))
    /\ [][(/\ pc = "fill"
           /\ mapping_strategy.kind = "object"
           /\ idx <= Len(mapping_strategy.items)
           /\ LET k == mapping_strategy.items[idx].k
              IN \A h \in DOMAIN doc :
                    /\ doc[h].id # k
                    /\ doc[h].name # k
                    /\ ~(doc[h].tag = "input" /\ doc[h].placeholder = k))
            => doc' = doc /\ ~raised' /\ pc' = "fill" /\ idx' = idx + 1]_vars

\* key a is the id of one input and the name of a later one: the first was filled
C8_Witness ==
    \E j \in DOMAIN ops :
        /\ ops[j].key = "a"
        /\ ops[j].op = "send_keys"
        /\ ops[j].res = "ok"
        /\ doc[ops[j].el].id = "a"
        /\ doc[ops[j].el].value = Jane
        /\ \E h \in DOMAIN doc : h # ops[j].el /\ doc[h].name = "a" /\ doc[h].value = <<>>

\* C9 (per-field failure isolation): with a mapping object, every iteration
\* of fill_form - also one in which a call raised - takes the next key in
\* mapping order, exactly once, lets no exception out and goes on with the
\* key after it; an iteration in which a call raised leaves every element other
\* than the one the call was on as it was (values written for earlier keys
\* stay); and fill_form returns normally, after the last key.
C9_FailureIsolation ==
    [][(pc = "fill" /\ mapping_strategy.kind = "object")
         => LET items == mapping_strategy.items
                new == SubSeq(ops', Len(ops) + 1, Len(ops'))
            IN /\ ~raised'
               /\ attempted = [j \in 1..(idx - 1) |-> items[j].k]
               /\ IF idx <= Len(items)
                  THEN /\ pc' = "fill"
                       /\ idx' = idx + 1
                       /\ attempted' = Append(attempted, items[idx].k)
                       /\ \A j \in DOMAIN new : new[j].res = "error" =>
                             \A h \in DOMAIN doc : h # new[j].el => doc'[h] = doc[h]
                  ELSE /\ pc' = "submit"
                       /\ attempted' = attempted
                       /\ doc' = doc]_vars

\* the first key's iteration raised, the second key was filled after it
C9_Witness ==
    /\ pc = "submit"
    /\ Len(attempted) = 2
    /\ \E j \in DOMAIN ops :
          /\ ops[j].res = "error"
          /\ ops[j].op \in {"clear", "send_keys", "click", "get_type", "find_id"}
          /\ ops[j].key = attempted[1]
          /\ \E h \in DOMAIN ops :
                /\ h > j
                /\ ops[h].key = attempted[2]
                /\ ops[h].op = "send_keys"
                /\ ops[h].res = "ok"
                /\ doc[ops[h].el].value = Jane

\* C10 (end-to-end heuristic scenario): on the document with one text input
\* of id first_name plus a submit control, when the mapping oracle's answer was
\* unusable, the finished run has the mapping {first_name: Jane}, the input's
\* value is Jane and the submit control was clicked exactly once.
C10_EndToEndHeuristic ==
    (/\ pc = "done"
     /\ Len(doc) = 2
     /\ doc[1].id = "first_name"
     /\ doc[2].tag = "button"
     /\ llm = "unparsable")
        => /\ mapping_strategy = JObject(<<Pair("first_name", PStr(Jane))>>)
           /\ doc[1].value = Jane
           /\ Cardinality(SubmitClicks) = 1

PhaseRank(p) ==
    CASE p = "navigate" -> 1 [] p = "scan" -> 2 [] p = "query" -> 2 [] p = "fill" -> 3
      [] p = "submit" -> 4 [] p = "screenshot" -> 5 [] p = "finally" -> 6 [] OTHER -> 7

FillOps == {j \in DOMAIN ops : ops[j].by = "fill"}
SubmitOps == {j \in DOMAIN ops : ops[j].by = "submit"}

\* C11 (pipeline ordering): run never goes back to an earlier phase, so each
\* of navigate, analyze_form, fill_form, submit_form happens at most once and in
\* this order; a call of fill_form on the document is made only after
\* analyze_form has returned its mapping; a call of submit_form (the lookup of
\* the submit control, the snapshot, the click) is made only after fill_form
\* has gone through every key and returned; every call of fill_form precedes
\* every call of submit_form, so the snapshot is read after the last fill
\* mutation and no fill mutation follows it.
C11_PipelineOrder ==
    /\ [](/\ \A i \in FillOps : \A j \in SubmitOps : i < j
          /\ FillOps # {} => llm = "parsed" /\ requests # <<>> /\ requests[1] = "map"
          /\ (SubmitOps # {} \/ pc \in {"submit", "screenshot"}) =>
                /\ mapping_strategy.kind = "object"
                /\ idx = Len(mapping_strategy.items) + 1
                /\ Len(attempted) = Len(mapping_strategy.items)
          /\ pc \in {"navigate", "scan"} => requests = <<>> /\ ops = <<>>)
    /\ [][PhaseRank(pc') >= PhaseRank(pc)]_vars

\* a fill mutation, then the snapshot, then the click
C11_Witness ==
    /\ pc = "done"
    /\ \E i, j, k \in DOMAIN ops :
          /\ i < j /\ j < k
          /\ ops[i].by = "fill" /\ ops[i].op = "send_keys" /\ ops[i].res = "ok"
          /\ ops[j].by = "submit" /\ ops[j].op = "snapshot"
          /\ ops[k].by = "submit" /\ ops[k].op = "click"

ControlKey(e) == IF e.id # "" THEN e.id ELSE e.name

Controls == {j \in DOMAIN doc : doc[j].tag \in {"input", "select", "textarea"}}

SnapshotEntry(k) == {n \in DOMAIN form_data : form_data[n].k = k}

VerdictRequested == \E n \in DOMAIN requests : requests[n] = "verdict"

\* C12 as claimed (gate snapshot completeness): the snapshot sent with the
\* verdict request has one entry for every input/select/textarea control of
\* the document: the boolean checked-state for a checkbox or a radio, the
\* current value string for any other control.
C12_SnapshotHasEveryControl ==
    VerdictRequested =>
        /\ Len(form_data) = Cardinality(Controls)
        /\ \A j \in Controls : ControlKey(doc[j]) # "" =>
              \E n \in SnapshotEntry(ControlKey(doc[j])) :
                  form_data[n].v = IF doc[j].type \in {"checkbox", "radio"}
                                   THEN PBool(doc[j].checked)
                                   ELSE PStr(doc[j].value)

\* C12 as amended: the snapshot is read from the document as it is at that
\* moment and is keyed by id, or by name when a control has no id.  For every
\* control whose key is not empty and not shared with another control it
\* holds: the boolean checked-state if the control is a checkbox, True if it
\* is a selected radio and no entry if it is an unselected radio, the current
\* value string otherwise.  It has no entry for anything else (a control with
\* neither id nor name is not in it).
C12_SnapshotOfIdentifiedControls ==
    VerdictRequested =>
        /\ \A j \in Controls :
              LET k == ControlKey(doc[j])
                  has(v) == \E n \in SnapshotEntry(k) : form_data[n].v = v
              IN (k # "" /\ \A h \in Controls : h # j => ControlKey(doc[h]) # k) =>
                    CASE doc[j].type = "checkbox" -> has(PBool(doc[j].checked))
                      [] doc[j].type = "radio" ->
                            IF doc[j].checked THEN has(PBool(TRUE)) ELSE SnapshotEntry(k) = {}
                      [] OTHER -> has(PStr(doc[j].value))
        /\ \A n \in DOMAIN form_data :
              /\ form_data[n].k # ""
              /\ \E j \in Controls : ControlKey(doc[j]) = form_data[n].k
              /\ Cardinality(SnapshotEntry(form_data[n].k)) = 1

\* the snapshot shows what fill_form wrote and the box it checked
C12_Witness ==
    /\ VerdictRequested
    /\ \E n \in DOMAIN form_data : form_data[n] = Pair("a", PStr(Jane))
    /\ \E n \in DOMAIN form_data : form_data[n] = Pair("agree", PBool(TRUE))
    /\ \E j \in DOMAIN ops : ops[j].by = "fill" /\ ops[j].op = "click" /\ ops[j].key = "agree"

Scanned == Controls \ introspection.scan

\* C13 (introspection failure isolation and order): when the scan of
\* analyze_form is over, the descriptor list holds, in document order, exactly
\* the controls that did not raise while their type, id, name, label or
\* placeholder was read - the controls after one that raised included; a
\* control whose parent could not be read is in the list, with an empty
\* parent text.
C13_IntrospectionIsolation ==
    pc = "query" =>
        /\ Len(element_details) = Cardinality(Scanned)
        /\ \A j \in Scanned :
              LET n == Cardinality({h \in Scanned : h <= j})
                  labels == {h \in DOMAIN doc : doc[h].tag = "label" /\ doc[h].for = doc[j].id}
              IN /\ element_details[n].type = doc[j].type
                 /\ element_details[n].id = doc[j].id
                 /\ element_details[n].name = doc[j].name
                 /\ element_details[n].placeholder = doc[j].placeholder
                 /\ element_details[n].label =
                       IF doc[j].id # "" /\ labels # {}
                       THEN doc[CHOOSE h \in labels : \A g \in labels : h <= g].text
                       ELSE <<>>
                 /\ element_details[n].parent_text =
                       IF j \in introspection.parent THEN <<>> ELSE doc[j].ptext

\* a control in the middle of the document raised, the ones after it are listed
C13_Witness ==
    /\ pc = "query"
    /\ \E j \in introspection.scan : \E h \in Scanned :
          /\ h > j
          /\ element_details[Len(element_details)].id = doc[h].id
          /\ doc[h].id # ""
    /\ Len(element_details) = Cardinality(Controls) - 1

TaggedFence(m) == <<FenceJson, NL, Json(JObject(m)), NL, Fence>>
BareFence(m) == <<Fence, NL, Json(JObject(m)), NL, Fence>>

MappingFrom(reply) == AnalyzeResult(TextOutcome(reply), element_details).mapping

\* C14 (code-fence tolerance): when analyze_form is about to query the oracle,
\* then for every JSON object the oracle may answer with, the reply that wraps
\* the object in a fenced block - opened by a fence with the json tag or by a
\* bare fence - makes analyze_form return the mapping that the unwrapped
\* object makes it return.
C14_FenceTolerance ==
    pc = "query" =>
        \A m \in Mappings :
            /\ MappingFrom(TaggedFence(m)) = MappingFrom(<<Json(JObject(m))>>)
            /\ MappingFrom(BareFence(m)) = MappingFrom(<<Json(JObject(m))>>)

Count(kind) == Cardinality({n \in DOMAIN requests : requests[n] = kind})

\* C15 (oracle requests are single-attempt): once analyze_form has queried the
\* oracle, exactly one mapping request has been issued, whether the request
\* failed, came back unparsable or succeeded; at most one verdict request is
\* ever issued, and only after a lookup of submit_form has found a submit
\* control - none on a document where no selector resolves, where every
\* selector is tried once.
C15_SingleAttempt ==
    /\ Count("map") = IF llm = "unset" THEN 0 ELSE 1
    /\ Count("verdict") = IF gate.kind = "unset" THEN 0 ELSE 1
    /\ Count("verdict") = 1 =>
          /\ requests = <<"map", "verdict">>
          /\ \E j \in DOMAIN ops :
                /\ ops[j].op = "find_submit" /\ ops[j].res = "ok" /\ ops[j].el # 0
                /\ \E n \in DOMAIN C3_Order : Matches(C3_Order[n], doc[ops[j].el])
    /\ C3_Resolving = {} => Count("verdict") = 0
    /\ (/\ pc = "done" /\ submitted # "unset" /\ C3_Resolving = {}
        /\ \A j \in DOMAIN ops : ops[j].res # "error") =>
          Cardinality({j \in DOMAIN ops : ops[j].op = "find_submit"}) = Len(C3_Order)

\* a verdict request that failed was not sent again
C15_Witness ==
    /\ pc = "done"
    /\ requests = <<"map", "verdict">>
    /\ gate.kind = "raise"
    /\ submitted = "False"

\* C16 (select dispatch): in the iteration of fill_form for a key that
\* resolves to a select element (and whose lookup and type read went through),
\* the option whose visible text equals the string form of the value is chosen
\* if there is one and that attempt did not raise; otherwise the option whose
\* underlying value equals it, if there is one; otherwise the chosen option
\* stays as it was.  In each case no other element changes, no exception
\* leaves the iteration and fill_form goes on with the next key.
C16_SelectDispatch ==
    [][(/\ pc = "fill"
        /\ mapping_strategy.kind = "object"
        /\ idx <= Len(mapping_strategy.items)
        /\ mapping_strategy.items[idx].v.t = "str"
        /\ mapping_strategy.items[idx].v.s # <<>>
        /\ \E e \in DOMAIN doc :
              doc[e].tag = "select" /\ doc[e].id = mapping_strategy.items[idx].k
        /\ \A n \in (Len(ops) + 1)..Len(ops') : ops'[n].op \notin {"find_id", "get_type"}
                                                 \/ ops'[n].res # "error")
         => LET k == mapping_strategy.items[idx].k
                str == mapping_strategy.items[idx].v.s
                e == CHOOSE e \in DOMAIN doc : doc[e].tag = "select" /\ doc[e].id = k
                opts == doc[e].options
                textRaised == \E n \in (Len(ops) + 1)..Len(ops') :
                                  ops'[n].op = "select_by_visible_text" /\ ops'[n].res = "error"
                byText == {n \in DOMAIN opts : opts[n].text = str}
                byValue == {n \in DOMAIN opts : opts[n].value = str}
            IN /\ doc'[e].value =
                     IF byText # {} /\ ~textRaised
                     THEN opts[CHOOSE n \in byText : \A m \in byText : n <= m].value
                     ELSE IF byValue # {} THEN str
                     ELSE doc[e].value
               /\ \A h \in DOMAIN doc : h # e => doc'[h] = doc[h]
               /\ ~raised'
               /\ pc' = "fill"
               /\ idx' = idx + 1]_vars

\* a value that is the text of one option and the underlying value of another
\* chose the first of the two; the key after it was processed
C16_Witness ==
    /\ pc = "submit"
    /\ Len(attempted) = 2
    /\ attempted[1] = "state"
    /\ mapping_strategy.items[1].v = PStr(<<"M", "A">>)
    /\ \E e \in DOMAIN doc :
          /\ doc[e].tag = "select"
          /\ doc[e].value = <<"m", "a">>
          /\ \E n, m \in DOMAIN doc[e].options :
                /\ doc[e].options[n].text = <<"M", "A">>
                /\ doc[e].options[m].value = <<"M", "A">>
                /\ n # m
    /\ \E j \in DOMAIN ops : ops[j].key = attempted[2] /\ ops[j].op = "send_keys"

\* C17 (no submission without a mapping): once analyze_form has come back
\* with anything but a JSON object (failed request, no text, unparsable
\* reply, JSON array), no call on the document is ever made, submit_form is
\* never entered (no selector tried, no snapshot, no verdict request, no
\* gate outcome, no result), and run leaves fill_form only with the
\* exception raised.
C17_NoSubmissionWithoutMapping ==
    (llm # "unset" /\ mapping_strategy.kind # "object") =>
        /\ ops = <<>>
        /\ pc \in {"fill", "finally", "done"}
        /\ pc # "fill" => raised
        /\ sel = 1
        /\ form_data = <<>>
        /\ gate = NoGate
        /\ requests = <<"map">>
        /\ submitted = "unset"

\* the run is over after a reply that parsed to a JSON array
C17_Witness ==
    /\ pc = "done"
    /\ llm = "parsed"
    /\ mapping_strategy = JArray
    /\ raised
    /\ quits = 1

\* C18 (browser session release): every run, whether it returns True or
\* False or an exception leaves navigation, analysis, fill, gate or
\* screenshot, eventually calls driver.quit; it is never called twice; and
\* once it has been called no call on the document and no request follows.
C18_BrowserReleased ==
    /\ <>(quits = 1)
    /\ [](quits <= 1)
    /\ [](quits = 1 => pc = "done")
    /\ [][quits = 1 => (ops' = ops /\ doc' = doc /\ requests' = requests)]_vars

\* the browser closed after the screenshot raised, the form already submitted
C18_Witness ==
    /\ quits = 1
    /\ raised
    /\ submitted = "True"
    /\ SubmitClicks # {}

====
